---- MODULE Spec2Model ----
(***************************************************************************)
(* Roulette spin orchestration: MainScene (src/src/mainscene.ts) driving   *)
(* BallPhysics (src/src/button.ts, lines 380-954) on top of an animation   *)
(* scheduler, a countdown UI, a wheel synchronizer and two adapters.       *)
(*                                                                         *)
(* Time advances in scheduler frames of TickMs milliseconds; a duration of *)
(* the source is the number of frames it spans (rounded up).  Angles are   *)
(* integers, TwoPi units to the full turn, so that every angle the code    *)
(* computes at a frame boundary is an integer.  Radii are tenths of a      *)
(* pixel.  The sinusoidal wobble / bounce offsets that the phase updates    *)
(* add to the drawn radius and height are cosmetic and are not part of the *)
(* position recorded here: a position is the pair (angle, radius) the      *)
(* update computes, the radius including the Math.random() perturbation    *)
(* of phase 3.                                                             *)
(*                                                                         *)
(* Every handler of the source is an operator from a state record to a     *)
(* state record, named as in the source, so that a handler that calls      *)
(* another handler is the composition of the two; an action applies one    *)
(* handler to the current state.                                           *)
(***************************************************************************)
EXTENDS Integers, Sequences, FiniteSets, TLC

VARIABLES
    isSpinning,          \* MainScene.isSpinning
    isServerControlled,  \* MainScene.isServerControlled
    inputState,          \* InputController: game state last pushed by updateGameState
    countdown,           \* GameUI: [running, left (frames), seconds]
    wheel,               \* WheelSynchronizer / roulette: [rotating, rotation]
    physicsIsSpinning,   \* BallPhysics.isSpinning
    animationTimeline,   \* BallPhysics.animationTimeline: session of the timeline, 0 = null
    ballSyncTween,       \* BallPhysics.ballSyncTween: [kind, sid] of the tween, or NoRef
    ballFinalAngle,      \* BallPhysics.ballFinalAngle
    currentBallAngle,    \* BallPhysics.currentBallAngle
    ball,                \* ball sprite: [visible, angle, radius]
    liveTimelines,       \* scheduler: master timelines that are neither killed nor complete
    liveTweens,          \* scheduler: blend / lock tweens that are neither killed nor complete
    delayedCalls,        \* scheduler: pending gsap.delayedCall callbacks
    started,             \* history: target of every session the engine started, in order
    cancelled,           \* history: sessions whose timeline was killed
    notifications,       \* history: notifications fired by the engine, in order
    lastWrite,           \* history: who wrote ball.position last
    connectionStatus,    \* GameUI: the connection-status display
    destroyed,           \* MainScene: destroyScene() has run
    calc,                \* inputs and result of a computation evaluated on its own
    dev,                 \* scripts/dev.mjs: the dev server's rebuild loop
    stale                \* history: a callback of a superseded or cancelled session
                         \*          has written the position or fired a notification

vars == <<isSpinning, isServerControlled, inputState, countdown, wheel,
          physicsIsSpinning, animationTimeline, ballSyncTween, ballFinalAngle,
          currentBallAngle, ball, liveTimelines, liveTweens, delayedCalls,
          started, cancelled, notifications, lastWrite, stale,
          connectionStatus, destroyed, calc, dev>>

programVars == <<isSpinning, isServerControlled, inputState, countdown, wheel,
                 physicsIsSpinning, animationTimeline, ballSyncTween, ballFinalAngle,
                 currentBallAngle, ball, liveTimelines, liveTweens, delayedCalls,
                 started, cancelled, notifications, lastWrite, stale,
                 connectionStatus, destroyed>>

---------------------------------------------------------------------------
(* Program constants *)

pocketCount == 37
spinDurationMs == 15000
ballSpins == 8
wheelPeriodMs == 2000
autoCountdownDuration == 15
ballStartRadius == 2700
ballEndRadius == 1400
blendDelayMs == 400
blendDurationMs == 2000
autoCountdownDelayMs == 1500
lockDurationMs == 999999000
TwoPi == 106560
TickMs == 1500

(* Bounds of the model *)

MaxSessions == 2
WheelStartCount == 5
MaxAngleSteps == 10
MaxLogArgs == 3
LockHorizon == 2

---------------------------------------------------------------------------
(* Units *)

Ticks(ms) == (ms + TickMs - 1) \div TickMs

SecondsToTicks(seconds) == Ticks(seconds * 1000)

spinDuration == Ticks(spinDurationMs)

ballMidRadius == (ballStartRadius * 75) \div 100

topPosition == 0 - (TwoPi \div 4)

Mod2Pi(a) == a % TwoPi

Phase1Ms == (spinDurationMs * 20) \div 100
Phase2Ms == (spinDurationMs * 30) \div 100
Phase3Ms == (spinDurationMs * 30) \div 100
Phase4Ms == (spinDurationMs * 20) \div 100

(* Position of each phase tween on the master timeline *)
Phase1StartMs == 0
Phase2StartMs == (spinDurationMs * 20) \div 100
(* Variant: phase 3 registered at 40 % of the spin *)
Phase3StartMs_early == (spinDurationMs * 40) \div 100
Phase3StartMs == (spinDurationMs * 50) \div 100
Phase4StartMs == (spinDurationMs * 80) \div 100

Phase1Start == 0
Phase2Start == Ticks(Phase2StartMs)
Phase3Start == Ticks(Phase3StartMs)
Phase4Start == Ticks(Phase4StartMs)

(* Frame in which each phase tween reaches its end *)
Phase1End == Ticks(Phase1StartMs + Phase1Ms)
Phase2End == Ticks(Phase2StartMs + Phase2Ms)
Phase3End == Ticks(Phase3StartMs + Phase3Ms)
Phase4End == Ticks(Phase4StartMs + Phase4Ms)

(* Angular displacement of the ball in phases 1, 2 and 3 *)
Phase1Rotation == (ballSpins * TwoPi * 30) \div 100
(* Variant: phase 2 turns the ball by 30 % of the ball rotations *)
Phase2Rotation_short == (ballSpins * TwoPi * 30) \div 100
Phase2Rotation == (ballSpins * TwoPi * 35) \div 100
Phase3Rotation == (ballSpins * TwoPi * 25) \div 100

(* Rotation of the wheel in one frame *)
WheelPerTick == (TwoPi * TickMs) \div wheelPeriodMs

---------------------------------------------------------------------------
(* Inputs *)

ValidTargets == {0, 32}
InvalidTargets == {0 - 1, pocketCount}
RemoteTargets == ValidTargets \cup InvalidTargets
TimeLefts == {400, 1500}
GameStateTimeLefts == {0, 400, 2500}
KeySeconds == {1}

InRange(index) == index >= 0 /\ index < pocketCount

---------------------------------------------------------------------------
(* The state as one record *)

NoRef == [kind |-> "none", sid |-> 0]

NoCountdown == [running |-> FALSE, left |-> 0, seconds |-> 0]

St == [isSpinning |-> isSpinning,
       isServerControlled |-> isServerControlled,
       inputState |-> inputState,
       countdown |-> countdown,
       wheel |-> wheel,
       physicsIsSpinning |-> physicsIsSpinning,
       animationTimeline |-> animationTimeline,
       ballSyncTween |-> ballSyncTween,
       ballFinalAngle |-> ballFinalAngle,
       currentBallAngle |-> currentBallAngle,
       ball |-> ball,
       liveTimelines |-> liveTimelines,
       liveTweens |-> liveTweens,
       delayedCalls |-> delayedCalls,
       started |-> started,
       cancelled |-> cancelled,
       notifications |-> notifications,
       lastWrite |-> lastWrite,
       stale |-> stale,
       connectionStatus |-> connectionStatus,
       destroyed |-> destroyed]

Apply(n) ==
    /\ isSpinning' = n.isSpinning
    /\ isServerControlled' = n.isServerControlled
    /\ inputState' = n.inputState
    /\ countdown' = n.countdown
    /\ wheel' = n.wheel
    /\ physicsIsSpinning' = n.physicsIsSpinning
    /\ animationTimeline' = n.animationTimeline
    /\ ballSyncTween' = n.ballSyncTween
    /\ ballFinalAngle' = n.ballFinalAngle
    /\ currentBallAngle' = n.currentBallAngle
    /\ ball' = n.ball
    /\ liveTimelines' = n.liveTimelines
    /\ liveTweens' = n.liveTweens
    /\ delayedCalls' = n.delayedCalls
    /\ started' = n.started
    /\ cancelled' = n.cancelled
    /\ notifications' = n.notifications
    /\ lastWrite' = n.lastWrite
    /\ stale' = n.stale
    /\ connectionStatus' = n.connectionStatus
    /\ destroyed' = n.destroyed
    /\ calc' = calc
    /\ dev' = dev

(* A session is current while it is the last one started and not cancelled *)
Sessions(s) == Len(s.started)

Current(s, sid) == sid = Sessions(s) /\ sid \notin s.cancelled

(* ball.position.set(x, y), with x, y on the circle of this radius at this angle *)
SetPosition(s, angle, radius, by, sid) ==
    [s EXCEPT !.ball = [@ EXCEPT !.angle = angle, !.radius = radius],
              !.lastWrite = [by |-> by, sid |-> sid],
              !.stale = @ \/ ~Current(s, sid)]

---------------------------------------------------------------------------
(* Roulette board and wheel synchronizer *)

getAngleForNumber(index) == index * (TwoPi \div pocketCount) + topPosition

(* The pocket that the wheel's rotation has brought to the top reference *)
getCurrentWinningNumber(s) ==
    LET pocketAngle == TwoPi \div pocketCount
    IN  ((Mod2Pi(TwoPi - s.wheel.rotation) + (pocketAngle \div 2)) \div pocketAngle)
            % pocketCount

startConstantRotation(s) == [s EXCEPT !.wheel.rotating = TRUE]

WheelUpdate(s) ==
    IF s.wheel.rotating
    THEN [s EXCEPT !.wheel.rotation = Mod2Pi(@ + WheelPerTick)]
    ELSE s

---------------------------------------------------------------------------
(* GameUI countdown *)

isCountdownRunning(s) == s.countdown.running

GameUI_startCountdown(s, seconds) ==
    [s EXCEPT !.countdown = [running |-> TRUE, left |-> SecondsToTicks(seconds),
                             seconds |-> seconds]]

GameUI_stopCountdown(s) == [s EXCEPT !.countdown = NoCountdown]

updateConnectionStatus(s, status) == [s EXCEPT !.connectionStatus = status]

---------------------------------------------------------------------------
(* MainScene: game state *)

canSpin(s) == ~s.isSpinning /\ ~isCountdownRunning(s)

isReadyToSpin(s) == canSpin(s)

updateGameState(s) ==
    [s EXCEPT !.inputState = [isSpinning |-> s.isSpinning,
                              isCountdownRunning |-> isCountdownRunning(s),
                              isServerControlled |-> s.isServerControlled]]

handleCountdownComplete(s) == updateGameState(s)

GameUI_update(s) ==
    IF ~s.countdown.running THEN s
    ELSE IF s.countdown.left > 1
         THEN [s EXCEPT !.countdown.left = @ - 1]
         ELSE handleCountdownComplete([s EXCEPT !.countdown = NoCountdown])

---------------------------------------------------------------------------
(* Animation scheduler: delayed calls *)

delayedCall(s, ms, kind, target, sid) ==
    [s EXCEPT !.delayedCalls = @ \cup {[kind |-> kind, left |-> Ticks(ms),
                                        target |-> target, sid |-> sid]}]

---------------------------------------------------------------------------
(* Animation scheduler: killing an animation *)

KillTimeline(s, sid) ==
    [s EXCEPT !.liveTimelines = {tl \in @ : tl.sid # sid},
              !.cancelled = @ \cup {tl.sid : tl \in {x \in s.liveTimelines : x.sid = sid}}]

KillTween(s, ref) ==
    [s EXCEPT !.liveTweens = {tw \in @ : ~(tw.kind = ref.kind /\ tw.sid = ref.sid)}]

---------------------------------------------------------------------------
(* BallPhysics *)

maxDelta == 678

Max(a, b) == IF a >= b THEN a ELSE b
Min(a, b) == IF a <= b THEN a ELSE b

(* Variant: only the master timeline is stopped, the sync tween is kept *)
stopAllAnimations_keepsSyncTween(s) ==
    IF s.animationTimeline # 0
    THEN [KillTimeline(s, s.animationTimeline) EXCEPT !.animationTimeline = 0]
    ELSE s

(* this.ballTween, the phase-1 tween, is a child of the master timeline    *)
(* and is stopped with it.                                                 *)
stopAllAnimations(s) ==
    LET a == IF s.animationTimeline # 0
             THEN [KillTimeline(s, s.animationTimeline) EXCEPT !.animationTimeline = 0]
             ELSE s
    IN  IF a.ballSyncTween # NoRef
        THEN [KillTween(a, a.ballSyncTween) EXCEPT !.ballSyncTween = NoRef]
        ELSE a

(* Phase 4, computed when the spin starts: the landing target *)
initialBallAngle == 0 - ((ballSpins * TwoPi * 90) \div 100)

(* Variant: a prediction at half the speed of the wheel *)
wheelRotationDuringRemainingTime_halfSpeed == (TwoPi * Phase4Ms) \div (2 * wheelPeriodMs)

wheelRotationDuringRemainingTime == (TwoPi * Phase4Ms) \div wheelPeriodMs

(* Variant: a landing target that ignores the rotation of the wheel during phase 4 *)
TargetBallAngle_noPrediction(winningIndex, currentWheelRotation) ==
    (getAngleForNumber(winningIndex) + currentWheelRotation) - topPosition

TargetBallAngle(winningIndex, currentWheelRotation) ==
    LET finalWheelRotation == currentWheelRotation + wheelRotationDuringRemainingTime
        targetNumberLocalAngle == getAngleForNumber(winningIndex)
        targetWorldAngle == targetNumberLocalAngle + finalWheelRotation
    IN  targetWorldAngle - topPosition

RECURSIVE NormalizeAngle(_)
NormalizeAngle(d) ==
    IF d > TwoPi \div 2 THEN NormalizeAngle(d - TwoPi)
    ELSE IF d < 0 - (TwoPi \div 2) THEN NormalizeAngle(d + TwoPi)
    ELSE d

(* Variant: no counter-clockwise bias *)
ForceCounterClockwise_unbiased(d) == d

ForceCounterClockwise(d) == IF d > 0 THEN d - TwoPi ELSE d

(* angleDiff: the shortest path from one angle to another, forced counter-clockwise *)
LandingDelta(from, to) == ForceCounterClockwise(NormalizeAngle(to - from))

AngleDiff(targetBallAngle) == LandingDelta(initialBallAngle, targetBallAngle)

(* Variant: a landing computation that turns the wheel to where it predicts it *)
executePhase4_CalculatedLanding_turnsWheel(s, winningIndex, sid) ==
    LET targetBallAngle == TargetBallAngle(winningIndex, s.wheel.rotation)
    IN  [s EXCEPT !.ballFinalAngle = targetBallAngle,
                  !.wheel.rotation = Mod2Pi(@ + wheelRotationDuringRemainingTime),
                  !.liveTimelines = @ \cup
                      {[sid |-> sid, time |-> 0, target |-> winningIndex,
                        angleDiff |-> AngleDiff(targetBallAngle),
                        targetBallAngle |-> targetBallAngle]}]

(* The master timeline of a session, with what its phase-4 tween captured *)
executePhase4_CalculatedLanding(s, winningIndex, sid) ==
    LET targetBallAngle == TargetBallAngle(winningIndex, s.wheel.rotation)
    IN  [s EXCEPT !.ballFinalAngle = targetBallAngle,
                  !.liveTimelines = @ \cup
                      {[sid |-> sid, time |-> 0, target |-> winningIndex,
                        angleDiff |-> AngleDiff(targetBallAngle),
                        targetBallAngle |-> targetBallAngle]}]

(* Variant: startSpin that does not clear the existing animations *)
BallPhysics_startSpin_noClear(s, winningIndex) ==
    IF s.physicsIsSpinning \/ winningIndex < 0 \/ winningIndex >= pocketCount
    THEN s
    ELSE LET a == [s EXCEPT !.physicsIsSpinning = TRUE, !.ball.visible = TRUE]
             sid == Sessions(a) + 1
             c == [a EXCEPT !.currentBallAngle = 0,
                            !.ballFinalAngle = 0,
                            !.started = Append(@, winningIndex),
                            !.animationTimeline = sid]
         IN  executePhase4_CalculatedLanding(c, winningIndex, sid)

BallPhysics_startSpin(s, winningIndex) ==
    IF s.physicsIsSpinning \/ winningIndex < 0 \/ winningIndex >= pocketCount
    THEN s
    ELSE LET a == [s EXCEPT !.physicsIsSpinning = TRUE, !.ball.visible = TRUE]
             b == stopAllAnimations(a)
             sid == Sessions(b) + 1
             c == [b EXCEPT !.currentBallAngle = 0,
                            !.ballFinalAngle = 0,
                            !.started = Append(@, winningIndex),
                            !.animationTimeline = sid]
         IN  executePhase4_CalculatedLanding(c, winningIndex, sid)

(* Per-frame updates of the four phases; k frames into a phase of n frames *)
Phase1Update(s, tl, k, n) ==
    LET angle == 0 - ((Phase1Rotation * k) \div n)
    IN  SetPosition([s EXCEPT !.currentBallAngle = angle],
                    angle, ballStartRadius, "phase1", tl.sid)

Phase2Update(s, tl, k, n) ==
    LET startAngle == 0 - Phase1Rotation
        angle == startAngle - ((Phase2Rotation * k) \div n)
    IN  SetPosition([s EXCEPT !.currentBallAngle = angle],
                    angle, ballStartRadius, "phase2", tl.sid)

(* The draws of the perturbation of phase 3: the value of                  *)
(* Math.sin(progress * 25) * Math.random(), which lies between -1 and 1,   *)
(* at its two ends and at zero                                             *)
Randoms == {-1, 0, 1}

(* erraticIntensity of phase 3, in tenths of a pixel *)
Phase3ErraticIntensity(k, n) == 120 - ((60 * k) \div n)

(* erraticMovement of phase 3; Math.sin(0) = 0 at progress 0 *)
Phase3ErraticMovement(k, n, random) ==
    IF k = 0 THEN 0 ELSE Phase3ErraticIntensity(k, n) * random

(* Variant: phase 3 already steers towards the landing angle *)
Phase3Update_towardsTarget(s, tl, k, n, random) ==
    LET startAngle == 0 - ((ballSpins * TwoPi * 65) \div 100)
        angle == (startAngle - ((Phase3Rotation * k) \div n)) + ((tl.angleDiff * k) \div n)
        baseRadius == ballStartRadius - (((ballStartRadius - ballMidRadius) * k) \div n)
        finalRadius == baseRadius + Phase3ErraticMovement(k, n, random)
    IN  SetPosition([s EXCEPT !.currentBallAngle = angle],
                    angle, finalRadius, "phase3", tl.sid)

Phase3Update(s, tl, k, n, random) ==
    LET startAngle == 0 - ((ballSpins * TwoPi * 65) \div 100)
        angle == startAngle - ((Phase3Rotation * k) \div n)
        baseRadius == ballStartRadius - (((ballStartRadius - ballMidRadius) * k) \div n)
        finalRadius == baseRadius + Phase3ErraticMovement(k, n, random)
    IN  SetPosition([s EXCEPT !.currentBallAngle = angle],
                    angle, finalRadius, "phase3", tl.sid)

(* Variant: a linear ease that reaches only nine tenths *)
easeInOutCubic_undershoot(k, n, den) == (den * 9 * k) \div (10 * n)

(* easeInOutCubic(k / n), times den *)
easeInOutCubic(k, n, den) ==
    IF 2 * k < n
    THEN (den * 4 * k * k * k) \div (n * n * n)
    ELSE den - ((den * 4 * (n - k) * (n - k) * (n - k)) \div (n * n * n))

Phase4Update(s, tl, k, n) ==
    LET interpolatedAngle == initialBallAngle + ((tl.angleDiff * k) \div n)
        deltaAngle == interpolatedAngle - s.currentBallAngle
        clampedDelta == Max(0 - maxDelta, Min(maxDelta, deltaAngle))
        radiusProgress == easeInOutCubic(k, n, 1000)
        currentRadius == ballMidRadius -
                         (((ballMidRadius - ballEndRadius) * radiusProgress) \div 1000)
    IN  SetPosition([s EXCEPT !.currentBallAngle = @ + clampedDelta],
                    interpolatedAngle, currentRadius, "phase4", tl.sid)

Notify(s, kind, winningIndex, sid) ==
    [s EXCEPT !.notifications =
                  Append(@, [kind |-> kind, target |-> winningIndex, sid |-> sid]),
              !.stale = @ \/ ~Current(s, sid)]

(* MainScene.handleBallLanded only logs *)
handleBallLanded(s, winningIndex) == s

(* RoulleteBoard.debugWheelState: a diagnostic dump to the log *)
debugWheelState(s) == s

(* Variant: an alignment mismatch keeps the scene spinning and schedules nothing *)
handleSpinComplete_stuckOnMismatch(s, winningIndex, actualWinner) ==
    LET a == updateGameState([s EXCEPT !.isSpinning = (actualWinner # winningIndex)])
    IN  IF ~a.isServerControlled /\ actualWinner = winningIndex
        THEN delayedCall(a, autoCountdownDelayMs, "countdown", winningIndex, 0)
        ELSE a

(* MainScene.handleSpinComplete, with the winner the board reports *)
handleSpinComplete(s, winningIndex, actualWinner) ==
    LET a == updateGameState([s EXCEPT !.isSpinning = FALSE])
        b == IF actualWinner = winningIndex THEN a ELSE debugWheelState(a)
    IN  IF ~b.isServerControlled
        THEN delayedCall(b, autoCountdownDelayMs, "countdown", winningIndex, 0)
        ELSE b

onSpinComplete(s, winningIndex, sid) ==
    LET a == Notify([s EXCEPT !.physicsIsSpinning = FALSE], "spinComplete",
                    winningIndex, sid)
    IN  handleSpinComplete(a, winningIndex, getCurrentWinningNumber(a))

(* Variant: a phase-4 onComplete that does not fire onBallLanded *)
Phase4Complete_noBallLanded(s, tl) ==
    LET a == SetPosition([s EXCEPT !.currentBallAngle = tl.targetBallAngle],
                         tl.targetBallAngle, ballEndRadius, "landing", tl.sid)
    IN  delayedCall(a, blendDelayMs, "sync", tl.target, tl.sid)

(* onComplete of the phase-4 tween; addFinalBounce only tweens ball.scale *)
Phase4Complete(s, tl) ==
    LET a == SetPosition([s EXCEPT !.currentBallAngle = tl.targetBallAngle],
                         tl.targetBallAngle, ballEndRadius, "landing", tl.sid)
        b == handleBallLanded(Notify(a, "ballLanded", tl.target, tl.sid), tl.target)
    IN  delayedCall(b, blendDelayMs, "sync", tl.target, tl.sid)

NewTween(kind, winningIndex, sid, frozen) ==
    [kind |-> kind, sid |-> sid, time |-> 0, target |-> winningIndex,
     ballCurrentAngle |-> frozen]

establishPermanentWheelSync(s, winningIndex, sid) ==
    IF s.physicsIsSpinning THEN s
    ELSE [s EXCEPT !.liveTweens = @ \cup {NewTween("lock", winningIndex, sid, 0)},
                   !.ballSyncTween = [kind |-> "lock", sid |-> sid]]

(* Variant: a blend start without the isSpinning guard *)
establishSmoothWheelSync_unguarded(s, winningIndex, sid) ==
    LET a == IF s.ballSyncTween # NoRef THEN KillTween(s, s.ballSyncTween) ELSE s
    IN  [a EXCEPT !.liveTweens =
                      @ \cup {NewTween("blend", winningIndex, sid, a.ballFinalAngle)},
                  !.ballSyncTween = [kind |-> "blend", sid |-> sid]]

establishSmoothWheelSync(s, winningIndex, sid) ==
    IF s.physicsIsSpinning THEN s
    ELSE LET a == IF s.ballSyncTween # NoRef THEN KillTween(s, s.ballSyncTween) ELSE s
         IN  [a EXCEPT !.liveTweens =
                           @ \cup {NewTween("blend", winningIndex, sid, a.ballFinalAngle)},
                       !.ballSyncTween = [kind |-> "blend", sid |-> sid]]

BlendTicks == Ticks(blendDurationMs)

(* Variant: the two weights exchanged *)
BlendAngle_swapped(frozen, wheelRelativeAngle, num, den) ==
    ((frozen * num) + (wheelRelativeAngle * (den - num))) \div den

BlendAngle(frozen, wheelRelativeAngle, num, den) ==
    ((frozen * (den - num)) + (wheelRelativeAngle * num)) \div den

ReplaceTween(s, tw, new) ==
    [s EXCEPT !.liveTweens = (@ \ {tw}) \cup new]

(* The angle a blend tween draws k frames into its n frames *)
BlendedAngle(ballCurrentAngle, winningIndex, currentWheelRotation, k, n) ==
    LET den == n * n * n
        progress == easeInOutCubic(k, n, den)
        wheelRelativeAngle == getAngleForNumber(winningIndex) + currentWheelRotation
    IN  BlendAngle(ballCurrentAngle, wheelRelativeAngle, progress, den)

(* Variant: the blend hands over to the lock at its first update *)
BlendUpdate_locksAtOnce(s, tw) ==
    LET k == tw.time + 1
        n == BlendTicks
        currentAngle == BlendedAngle(tw.ballCurrentAngle, tw.target, s.wheel.rotation, k, n)
        a == SetPosition(s, currentAngle, ballEndRadius, "blend", tw.sid)
    IN  establishPermanentWheelSync(ReplaceTween(a, tw, {}), tw.target, tw.sid)

(* One frame of a blend tween: onUpdate, and onComplete at its end *)
BlendUpdate(s, tw) ==
    LET k == tw.time + 1
        n == BlendTicks
        currentAngle == BlendedAngle(tw.ballCurrentAngle, tw.target, s.wheel.rotation, k, n)
        a == SetPosition(s, currentAngle, ballEndRadius, "blend", tw.sid)
    IN  IF k >= n
        THEN establishPermanentWheelSync(ReplaceTween(a, tw, {}), tw.target, tw.sid)
        ELSE ReplaceTween(a, tw, {[tw EXCEPT !.time = k]})

(* The lock tween is a tween of lockDurationMs with no onComplete. Its age *)
(* is counted in its last LockHorizon frames; all earlier ages are one     *)
(* state, so that a lock which is far from its end is a finite cycle.      *)
LockTicks == Ticks(lockDurationMs)

LockClock(time) == IF time < LockTicks - LockHorizon THEN time ELSE time + 1

(* One frame of a permanent lock tween: onUpdate, and the tween's end *)
LockUpdate(s, tw) ==
    IF s.physicsIsSpinning
    THEN IF s.ballSyncTween # NoRef
         THEN [KillTween(s, s.ballSyncTween) EXCEPT !.ballSyncTween = NoRef]
         ELSE s
    ELSE LET a == SetPosition(s, getAngleForNumber(tw.target) + s.wheel.rotation,
                              ballEndRadius, "lock", tw.sid)
             k == LockClock(tw.time)
         IN  IF k >= LockTicks
             THEN ReplaceTween(a, tw, {})
             ELSE ReplaceTween(a, tw, {[tw EXCEPT !.time = k]})

TweenUpdate(s, tw) ==
    IF tw.kind = "blend" THEN BlendUpdate(s, tw) ELSE LockUpdate(s, tw)

(* The live tweens of a frame, oldest first *)
Older(x, y) == x.sid < y.sid \/ (x.sid = y.sid /\ (x.kind = "blend" \/ y.kind = "lock"))

RECURSIVE RenderTweens(_, _)
RenderTweens(s, todo) ==
    IF todo = {} THEN s
    ELSE LET tw == CHOOSE x \in todo : \A y \in todo : Older(x, y)
         IN  RenderTweens(IF tw \in s.liveTweens THEN TweenUpdate(s, tw) ELSE s,
                          todo \ {tw})

(* One frame of a master timeline: its phase tweens in order of their      *)
(* start offsets, then the onComplete of phase 4 and that of the timeline. *)
TimelineRender(s, tl, random) ==
    LET t == tl.time + 1
        s1 == IF t >= Phase1Start /\ t <= Phase1End
              THEN Phase1Update(s, tl, t - Phase1Start, Phase1End - Phase1Start)
              ELSE s
        s2 == IF t >= Phase2Start /\ t <= Phase2End
              THEN Phase2Update(s1, tl, t - Phase2Start, Phase2End - Phase2Start)
              ELSE s1
        s3 == IF t >= Phase3Start /\ t <= Phase3End
              THEN Phase3Update(s2, tl, t - Phase3Start, Phase3End - Phase3Start, random)
              ELSE s2
        s4 == IF t >= Phase4Start /\ t <= Phase4End
              THEN Phase4Update(s3, tl, t - Phase4Start, Phase4End - Phase4Start)
              ELSE s3
    IN  IF t >= Phase4End
        THEN onSpinComplete(
                 Phase4Complete([s4 EXCEPT !.liveTimelines = @ \ {tl}], tl),
                 tl.target, tl.sid)
        ELSE [s4 EXCEPT !.liveTimelines = (@ \ {tl}) \cup {[tl EXCEPT !.time = t]}]

RECURSIVE RenderTimelines(_, _, _)
RenderTimelines(s, todo, random) ==
    IF todo = {} THEN s
    ELSE LET tl == CHOOSE x \in todo : \A y \in todo : x.sid <= y.sid
         IN  RenderTimelines(IF tl \in s.liveTimelines
                             THEN TimelineRender(s, tl, random) ELSE s,
                             todo \ {tl}, random)

(* The delayed calls that are due in this frame, blend start before countdown *)
FireDelayed(s, c) ==
    IF c.kind = "sync" THEN establishSmoothWheelSync(s, c.target, c.sid)
    ELSE GameUI_startCountdown(s, autoCountdownDuration)

RECURSIVE FireAll(_, _)
FireAll(s, due) ==
    IF due = {} THEN s
    ELSE LET c == CHOOSE x \in due :
                    \A y \in due : (x.kind = "sync" \/ y.kind # "sync")
         IN  FireAll(FireDelayed(s, c), due \ {c})

(* The calls that were pending when the frame began run down by one frame; *)
(* a call scheduled within the frame starts its delay with the next one.   *)
DelayedRender(s, pending) ==
    LET old == s.delayedCalls \cap pending
        due == {c \in old : c.left <= 1}
        rest == {[c EXCEPT !.left = @ - 1] : c \in old \ due}
    IN  FireAll([s EXCEPT !.delayedCalls = rest \cup (s.delayedCalls \ pending)], due)

(* MainScene.update(dt); a scene that was destroyed is no longer updated *)
MainScene_update(s) == IF s.destroyed THEN s ELSE GameUI_update(s)

(* One frame: the scheduler's tick (wheel, timelines, sync tweens, delayed *)
(* calls), then the scene update that drives the countdown UI.             *)
Frame(s, random) ==
    LET a == WheelUpdate(s)
        b == RenderTimelines(a, a.liveTimelines, random)
        c == RenderTweens(b, b.liveTweens)
    IN  MainScene_update(DelayedRender(c, s.delayedCalls))

---------------------------------------------------------------------------
(* Teardown *)

BallPhysics_destroy(s) == stopAllAnimations(s)

(* WheelSynchronizer.destroy cancels the constant rotation *)
WheelSynchronizer_destroy(s) == [s EXCEPT !.wheel.rotating = FALSE]

(* MainScene.destroyScene: GameUI.destroy, GameNetworkManager.destroy and  *)
(* InputController.destroy detach the UI and the two adapters, after which *)
(* no update, remote message or key reaches the scene.                     *)
destroyScene(s) ==
    [WheelSynchronizer_destroy(BallPhysics_destroy(s)) EXCEPT !.destroyed = TRUE]

---------------------------------------------------------------------------
(* MainScene: handlers *)

MainScene_startSpin(s, winningIndex) ==
    IF ~canSpin(s) THEN s
    ELSE BallPhysics_startSpin(updateGameState([s EXCEPT !.isSpinning = TRUE]),
                               winningIndex)

handleNetworkConnected(s) ==
    updateGameState(
        updateConnectionStatus([s EXCEPT !.isServerControlled = TRUE], "CONNECTED"))

(* Variant: a disconnect that leaves the server in control *)
handleNetworkDisconnected_keepsControl(s) ==
    updateGameState(updateConnectionStatus(s, "DISCONNECTED"))

handleNetworkDisconnected(s) ==
    updateGameState(
        updateConnectionStatus([s EXCEPT !.isServerControlled = FALSE], "DISCONNECTED"))

(* Variant: an error that also stops the spin in flight *)
handleNetworkError_stopsSpin(s) ==
    updateConnectionStatus(
        IF s.isSpinning
        THEN updateGameState([stopAllAnimations(s) EXCEPT !.isSpinning = FALSE])
        ELSE s,
        "ERROR")

handleNetworkError(s) == updateConnectionStatus(s, "ERROR")

(* Variant: Math.floor in place of Math.ceil *)
CeilSeconds_floor(timeLeft) == timeLeft \div 1000

CeilSeconds(timeLeft) == (timeLeft + 999) \div 1000

(* Variant: the flag is cleared but the animations are left running *)
StopCurrentSpin_flagOnly(s) ==
    IF s.isSpinning THEN updateGameState([s EXCEPT !.isSpinning = FALSE]) ELSE s

StopCurrentSpin(s) ==
    IF s.isSpinning
    THEN updateGameState([stopAllAnimations(s) EXCEPT !.isSpinning = FALSE])
    ELSE s

handleGameState(s, roundActive, timeLeft) ==
    LET a == IF roundActive /\ timeLeft > 0
             THEN GameUI_startCountdown(StopCurrentSpin(s), CeilSeconds(timeLeft))
             ELSE GameUI_stopCountdown(s)
    IN  updateConnectionStatus(a, "CONNECTED")

handleRoundStart(s, timeLeft) ==
    GameUI_startCountdown(StopCurrentSpin(s), CeilSeconds(timeLeft))

handleServerSpin(s, index) ==
    MainScene_startSpin(GameUI_stopCountdown(s), index)

handleInputSpin(s, targetNumber) ==
    IF canSpin(s) THEN MainScene_startSpin(s, targetNumber) ELSE s

handleInputRandomSpin(s, randomWinner) ==
    IF canSpin(s) THEN MainScene_startSpin(s, randomWinner) ELSE s

handleInputCountdownStart(s, seconds) ==
    IF ~s.isServerControlled THEN GameUI_startCountdown(s, seconds) ELSE s

handleInputCountdownStop(s) ==
    IF ~s.isServerControlled THEN GameUI_stopCountdown(s) ELSE s

(* Public API; target = NoTarget stands for an undefined targetNumber *)
NoTarget == 0 - 1000

spin(s, targetNumber, randomWinner) ==
    IF s.isServerControlled THEN s
    ELSE IF targetNumber # NoTarget /\ targetNumber >= 0 /\ targetNumber < pocketCount
         THEN handleInputSpin(s, targetNumber)
         ELSE handleInputRandomSpin(s, randomWinner)

startCountdown(s, seconds) ==
    IF ~s.isServerControlled THEN GameUI_startCountdown(s, seconds) ELSE s

stopCountdown(s) == GameUI_stopCountdown(s)

---------------------------------------------------------------------------
(* InputController: a key is passed on to the scene unless the game state  *)
(* last pushed to the controller says the server is in control.            *)

InputEnabled(s) == ~s.inputState.isServerControlled

InputController_onSpin(s, targetNumber) ==
    IF InputEnabled(s) THEN handleInputSpin(s, targetNumber) ELSE s

InputController_onRandomSpin(s, randomWinner) ==
    IF InputEnabled(s) THEN handleInputRandomSpin(s, randomWinner) ELSE s

InputController_onCountdownStart(s, seconds) ==
    IF InputEnabled(s) THEN handleInputCountdownStart(s, seconds) ELSE s

InputController_onCountdownStop(s) ==
    IF InputEnabled(s) THEN handleInputCountdownStop(s) ELSE s

---------------------------------------------------------------------------
(* Initial state: MainScene's constructor has run (the ball is initialised *)
(* hidden at 3 o'clock on the outer rim, the wheel rotates, the connection *)
(* to the server has been requested but is not yet established).           *)

InitState ==
    [isSpinning |-> FALSE,
     isServerControlled |-> FALSE,
     inputState |-> [isSpinning |-> FALSE, isCountdownRunning |-> FALSE,
                     isServerControlled |-> FALSE],
     countdown |-> NoCountdown,
     wheel |-> [rotating |-> TRUE, rotation |-> 0],
     physicsIsSpinning |-> FALSE,
     animationTimeline |-> 0,
     ballSyncTween |-> NoRef,
     ballFinalAngle |-> 0,
     currentBallAngle |-> 0,
     ball |-> [visible |-> FALSE, angle |-> 0, radius |-> ballStartRadius],
     liveTimelines |-> {},
     liveTweens |-> {},
     delayedCalls |-> {},
     started |-> <<>>,
     cancelled |-> {},
     notifications |-> <<>>,
     lastWrite |-> [by |-> "init", sid |-> 0],
     stale |-> FALSE,
     connectionStatus |-> "DISCONNECTED",
     destroyed |-> FALSE]

Start(n) ==
    /\ isSpinning = n.isSpinning
    /\ isServerControlled = n.isServerControlled
    /\ inputState = n.inputState
    /\ countdown = n.countdown
    /\ wheel = n.wheel
    /\ physicsIsSpinning = n.physicsIsSpinning
    /\ animationTimeline = n.animationTimeline
    /\ ballSyncTween = n.ballSyncTween
    /\ ballFinalAngle = n.ballFinalAngle
    /\ currentBallAngle = n.currentBallAngle
    /\ ball = n.ball
    /\ liveTimelines = n.liveTimelines
    /\ liveTweens = n.liveTweens
    /\ delayedCalls = n.delayedCalls
    /\ started = n.started
    /\ cancelled = n.cancelled
    /\ notifications = n.notifications
    /\ lastWrite = n.lastWrite
    /\ stale = n.stale
    /\ connectionStatus = n.connectionStatus
    /\ destroyed = n.destroyed

NoCalc == [fn |-> "none"]

(* The dev server is not running *)
NoDev == [pc |-> "none"]

Init == Start(InitState) /\ calc = NoCalc /\ dev = NoDev

---------------------------------------------------------------------------
(* Actions *)

(* Spin requests are offered while the engine has started fewer than       *)
(* MaxSessions sessions.                                                   *)
MoreSpins == Len(started) < MaxSessions

Tick == \E random \in Randoms : Apply(Frame(St, random))

NetworkConnected ==
    /\ ~isServerControlled
    /\ Apply(handleNetworkConnected(St))

NetworkDisconnected ==
    /\ isServerControlled
    /\ Apply(handleNetworkDisconnected(St))

NetworkError == Apply(handleNetworkError(St))

(* Messages of the server arrive over an established connection *)
ServerGameState ==
    /\ isServerControlled
    /\ \E roundActive \in BOOLEAN, timeLeft \in GameStateTimeLefts :
          Apply(handleGameState(St, roundActive, timeLeft))

ServerRoundStart ==
    /\ isServerControlled
    /\ \E timeLeft \in TimeLefts : Apply(handleRoundStart(St, timeLeft))

ServerSpin ==
    /\ isServerControlled
    /\ MoreSpins
    /\ \E index \in RemoteTargets : Apply(handleServerSpin(St, index))

KeySpin ==
    /\ MoreSpins
    /\ \E targetNumber \in ValidTargets :
          Apply(InputController_onSpin(St, targetNumber))

KeyRandomSpin ==
    /\ MoreSpins
    /\ \E randomWinner \in ValidTargets :
          Apply(InputController_onRandomSpin(St, randomWinner))

KeyCountdownStart ==
    \E seconds \in KeySeconds : Apply(InputController_onCountdownStart(St, seconds))

KeyCountdownStop == Apply(InputController_onCountdownStop(St))

PublicSpin ==
    /\ MoreSpins
    /\ \E targetNumber \in ValidTargets \cup {NoTarget}, randomWinner \in ValidTargets :
          Apply(spin(St, targetNumber, randomWinner))

PublicStartCountdown ==
    \E seconds \in KeySeconds : Apply(startCountdown(St, seconds))

PublicStopCountdown == Apply(stopCountdown(St))

Next ==
    \/ Tick
    \/ NetworkConnected
    \/ NetworkDisconnected
    \/ NetworkError
    \/ ServerGameState
    \/ ServerRoundStart
    \/ ServerSpin
    \/ KeySpin
    \/ KeyRandomSpin
    \/ KeyCountdownStart
    \/ KeyCountdownStop
    \/ PublicSpin
    \/ PublicStartCountdown
    \/ PublicStopCountdown

Spec == Init /\ [][Next]_vars

TypeOK ==
    /\ isSpinning \in BOOLEAN
    /\ isServerControlled \in BOOLEAN
    /\ physicsIsSpinning \in BOOLEAN
    /\ countdown.left >= 0
    /\ wheel.rotation >= 0 /\ wheel.rotation < TwoPi
    /\ Len(started) <= MaxSessions
    /\ Cardinality(delayedCalls) <= 2
    /\ connectionStatus \in {"DISCONNECTED", "CONNECTED", "ERROR"}
    /\ destroyed \in BOOLEAN

---------------------------------------------------------------------------
(* Remote spin and local gating                                            *)

EngineRuns(n, index) ==
    /\ n.physicsIsSpinning
    /\ \E tl \in n.liveTimelines : tl.sid = n.animationTimeline /\ tl.target = index

(* C1: a remote Spin with a valid index is accepted in every reachable     *)
(* state: after handleServerSpin returns no countdown is running,          *)
(* isSpinning is true and the engine runs a session whose target is index. *)
C1_RemoteSpinAlwaysAccepted ==
    isServerControlled =>
        \A index \in ValidTargets :
            LET n == handleServerSpin(St, index)
            IN  /\ ~n.countdown.running
                /\ n.isSpinning
                /\ EngineRuns(n, index)

(* What a no-op leaves alone: the spin flag, the countdown and the engine *)
SameSession(n) ==
    /\ n.isSpinning = isSpinning
    /\ n.countdown = countdown
    /\ n.physicsIsSpinning = physicsIsSpinning
    /\ n.animationTimeline = animationTimeline
    /\ n.ballSyncTween = ballSyncTween
    /\ n.liveTimelines = liveTimelines
    /\ n.liveTweens = liveTweens
    /\ n.ball = ball

LocalCommandsAreNoOps ==
    /\ \A t \in ValidTargets :
          /\ SameSession(InputController_onSpin(St, t))
          /\ SameSession(InputController_onRandomSpin(St, t))
          /\ SameSession(spin(St, t, t))
          /\ SameSession(spin(St, NoTarget, t))
    /\ \A seconds \in KeySeconds :
          /\ SameSession(InputController_onCountdownStart(St, seconds))
          /\ SameSession(startCountdown(St, seconds))
    /\ SameSession(InputController_onCountdownStop(St))

RemoteMessagesTakeEffect ==
    /\ \A timeLeft \in TimeLefts :
          /\ handleRoundStart(St, timeLeft).countdown.running
          /\ handleGameState(St, TRUE, timeLeft).countdown.running
          /\ ~handleGameState(St, FALSE, timeLeft).countdown.running
    /\ \A index \in ValidTargets :
          /\ handleServerSpin(St, index).isSpinning
          /\ ~handleServerSpin(St, index).countdown.running

LocalCommandsTakeEffect ==
    /\ \A seconds \in KeySeconds :
          /\ InputController_onCountdownStart(St, seconds).countdown.running
          /\ startCountdown(St, seconds).countdown.running
    /\ ~InputController_onCountdownStop(St).countdown.running
    /\ ~stopCountdown(St).countdown.running
    /\ \A t \in ValidTargets :
          canSpin(St) => /\ InputController_onSpin(St, t).isSpinning
                         /\ InputController_onRandomSpin(St, t).isSpinning
                         /\ spin(St, t, t).isSpinning

(* C2: while isServerControlled every local command, the public            *)
(* stopCountdown included, is a no-op and the remote messages take effect; *)
(* while it is false the local spin and countdown commands take effect.    *)
C2_ServerControlGatesLocalCommands ==
    /\ isServerControlled =>
          /\ LocalCommandsAreNoOps
          /\ SameSession(stopCountdown(St))
          /\ RemoteMessagesTakeEffect
    /\ ~isServerControlled => LocalCommandsTakeEffect

(* C2 without the public stopCountdown: the part of the claim the code keeps *)
C2_AllButStopCountdown ==
    /\ isServerControlled => (LocalCommandsAreNoOps /\ RemoteMessagesTakeEffect)
    /\ ~isServerControlled => LocalCommandsTakeEffect

(* C3: a spin request with a target outside [0, pocketCount) changes no    *)
(* state: isSpinning, the countdown, the engine's flag and animations and  *)
(* the ball are the same after it as before.                               *)
C3_OutOfRangeSpinChangesNothing ==
    \A index \in InvalidTargets :
        /\ SameSession(BallPhysics_startSpin(St, index))
        /\ isServerControlled => SameSession(handleServerSpin(St, index))

(* The engine rejects an out-of-range target without any change *)
C3_EngineRejectsOutOfRange ==
    \A index \in InvalidTargets : BallPhysics_startSpin(St, index) = St

NewSession(n, index) ==
    /\ Len(n.started) = Len(started) + 1
    /\ n.physicsIsSpinning
    /\ n.animationTimeline = Len(n.started)
    /\ \E tl \in n.liveTimelines :
          tl.sid = Len(n.started) /\ tl.target = index /\ tl.time = 0

(* C4: a local spin request with a valid target starts a spin exactly when *)
(* canSpin() holds (not spinning, no countdown), isReadyToSpin() returns   *)
(* that value, and a request made otherwise changes no state.              *)
C4_LocalSpinStartsIffCanSpin ==
    ~isServerControlled =>
        \A t \in ValidTargets :
            LET n == InputController_onSpin(St, t)
            IN  /\ isReadyToSpin(St) = (~isSpinning /\ ~countdown.running)
                /\ canSpin(St) => (n.isSpinning /\ NewSession(n, t))
                /\ ~canSpin(St) => n = St

---------------------------------------------------------------------------
(* Engine sessions                                                         *)

StartsAlone(n, index) ==
    /\ NewSession(n, index)
    /\ Cardinality(n.liveTimelines) = 1
    /\ n.liveTweens = {}
    /\ n.ballSyncTween = NoRef

(* C5: the engine's startSpin with a valid target is re-entrant; called in  *)
(* any engine state (Idle, Spinning, Landed, Blending, Locked) it cancels  *)
(* every in-flight phase and sync animation and leaves the engine Spinning *)
(* on a new session for that target.                                       *)
C5_StartSpinReentrant ==
    \A t \in ValidTargets : StartsAlone(BallPhysics_startSpin(St, t), t)

(* What startSpin does: with the engine's isSpinning flag false it starts  *)
(* alone on a new session; with the flag true it changes nothing.          *)
C5_StartSpinWhenNotSpinning ==
    \A t \in ValidTargets :
        LET n == BallPhysics_startSpin(St, t)
        IN  IF physicsIsSpinning THEN n = St ELSE StartsAlone(n, t)

(* C6: once a new session has started, or a spin has been cancelled by a   *)
(* remote message, no per-frame or delayed callback of an earlier session  *)
(* writes the ball position or fires ball-landed / spin-complete.          *)
C6_NoStaleCallback == ~stale

(* A second session runs while the delayed blend start of the first, which *)
(* landed in the same frame, is still pending                              *)
C6_OldSyncPendingInNewSession ==
    /\ Len(started) = 2
    /\ \E tl \in liveTimelines : tl.sid = 2
    /\ \E c \in delayedCalls : c.kind = "sync" /\ c.sid = 1

(* C7: at most one spin animation and at most one countdown are active,    *)
(* and a trajectory timeline and a blend / lock tween are never active     *)
(* together.                                                               *)
C7_OneAnimationAtATime ==
    /\ Cardinality(liveTimelines) <= 1
    /\ Cardinality(liveTweens) <= 1
    /\ liveTimelines # {} => liveTweens = {}

(* A trajectory runs on a ball that the blend tween moved last *)
C7_TimelineAfterBlend ==
    /\ liveTimelines # {}
    /\ lastWrite.by = "blend"

(* C8: a spin animation and a countdown are never active together; the     *)
(* session is always exactly one of Idle, Spinning, CountdownRunning.      *)
C8_SpinAndCountdownExclusive ==
    ~(countdown.running /\ (isSpinning \/ liveTimelines # {}))

NotificationsOf(sid) == SelectSeq(notifications, LAMBDA x : x.sid = sid)

LandedThenComplete(sid) ==
    <<[kind |-> "ballLanded", target |-> started[sid], sid |-> sid],
      [kind |-> "spinComplete", target |-> started[sid], sid |-> sid]>>

IsLive(sid) == \E tl \in liveTimelines : tl.sid = sid

(* C9: every session that completes fires exactly one ball-landed and then *)
(* exactly one spin-complete, both with the session's target; a cancelled  *)
(* session fires neither.                                                  *)
C9_LandedThenCompleteOnce ==
    \A sid \in 1..Len(started) :
        /\ (sid \in cancelled \/ IsLive(sid)) => NotificationsOf(sid) = <<>>
        /\ (sid \notin cancelled /\ ~IsLive(sid)) =>
               NotificationsOf(sid) = LandedThenComplete(sid)

(* One session was cancelled and another has completed *)
C9_OneCancelledOneCompleted ==
    /\ cancelled # {}
    /\ Len(notifications) = 2

---------------------------------------------------------------------------
(* The landing of a spin, for every pocket: a scene that has been idle for *)
(* some time, so that the wheel is at any of WheelStartCount evenly spaced *)
(* rotations, takes one local spin request for any pocket.                 *)

WheelStarts == {(k * TwoPi) \div WheelStartCount : k \in 0..(WheelStartCount - 1)}

LandingInit ==
    /\ \E rotation \in WheelStarts :
          Start([InitState EXCEPT !.wheel.rotation = rotation])
    /\ calc = NoCalc
    /\ dev = NoDev

LandingSpin ==
    /\ started = <<>>
    /\ \E targetNumber \in 0..(pocketCount - 1) :
          Apply(InputController_onSpin(St, targetNumber))

LandingNext ==
    \/ Tick
    \/ LandingSpin

SpecLanding == LandingInit /\ [][LandingNext]_vars

(* The frame in which a session landed: its blend start was just scheduled *)
JustLanded(c) == c.kind = "sync" /\ c.left = Ticks(blendDelayMs)

(* The rotation the wheel had spinDuration frames ago *)
WheelAtSpinStart == Mod2Pi(wheel.rotation - spinDuration * WheelPerTick)

(* C10: for every target pocket and wheel rotation, the angle of the ball  *)
(* at progress 1 of phase 4 is the pocket's local angle plus the wheel     *)
(* rotation read when the landing was computed plus wheel velocity times   *)
(* the phase-4 duration, taken relative to the top reference, and the      *)
(* radius is the end radius.                                               *)
C10_LandingOnPredictedPocket ==
    \A c \in delayedCalls :
        JustLanded(c) =>
            /\ ball.angle = (getAngleForNumber(c.target) + WheelAtSpinStart
                             + (TwoPi * Phase4Ms) \div wheelPeriodMs) - topPosition
            /\ ball.radius = ballEndRadius
            /\ lastWrite = [by |-> "landing", sid |-> c.sid]

(* The last pocket has just been landed on, from a wheel that was turned *)
C10_LandedOnLastPocket ==
    \E c \in delayedCalls :
        /\ JustLanded(c)
        /\ c.target = pocketCount - 1
        /\ WheelAtSpinStart # 0

(* The rotation of the wheel over the whole spin *)
WheelRotationDuringSpin == (TwoPi * spinDurationMs) \div wheelPeriodMs

(* A spin to pocket 0, started with the wheel at rotation 0, has just landed *)
LandedOnZeroFromZero(c) == JustLanded(c) /\ c.target = 0 /\ WheelAtSpinStart = 0

---------------------------------------------------------------------------
(* The angle computations of the engine, evaluated on their own: the       *)
(* landing delta of phase 4 for any two angles, and the blended angle of   *)
(* the post-land blend for any frozen angle, pocket and wheel rotation.    *)

AngleStep == TwoPi \div 8

Angles == {k * AngleStep : k \in (0 - MaxAngleSteps)..MaxAngleSteps}

NearAngles == {a + o : a \in Angles, o \in {0 - 1, 0, 1}}

DeltaInputs ==
    [fn : {"shortestDelta"}, from : Angles, to : NearAngles, done : {FALSE}, delta : {0}]

BlendInputs ==
    [fn : {"blend"}, frozen : Angles, target : {0, 18, pocketCount - 1},
     rotation : NearAngles, done : {FALSE}, atZero : {0}, atOne : {0}]

AnglesInit ==
    /\ Start(InitState)
    /\ calc \in DeltaInputs \cup BlendInputs
    /\ dev = NoDev

ComputeLandingDelta ==
    /\ calc.fn = "shortestDelta"
    /\ ~calc.done
    /\ calc' = [calc EXCEPT !.done = TRUE, !.delta = LandingDelta(calc.from, calc.to)]
    /\ UNCHANGED <<programVars, dev>>

ComputeBlendedAngle ==
    /\ calc.fn = "blend"
    /\ ~calc.done
    /\ calc' = [calc EXCEPT
                   !.done = TRUE,
                   !.atZero = BlendedAngle(calc.frozen, calc.target, calc.rotation,
                                           0, BlendTicks),
                   !.atOne = BlendedAngle(calc.frozen, calc.target, calc.rotation,
                                          BlendTicks, BlendTicks)]
    /\ UNCHANGED <<programVars, dev>>

AnglesNext ==
    \/ ComputeLandingDelta
    \/ ComputeBlendedAngle

SpecAngles == AnglesInit /\ [][AnglesNext]_vars

(* C12: for any two angles from and to, the landing delta (to - from       *)
(* normalized into [-pi, pi], then forced counter-clockwise) is never      *)
(* positive, lies in (-2pi, 0] and is congruent to to - from modulo a full *)
(* turn.                                                                   *)
C12_LandingDeltaNeverPositive ==
    (calc.fn = "shortestDelta" /\ calc.done) =>
        /\ calc.delta <= 0
        /\ calc.delta > 0 - TwoPi
        /\ Mod2Pi(calc.delta) = Mod2Pi(calc.to - calc.from)

(* A delta whose shortest path is clockwise was forced counter-clockwise *)
C12_ClockwiseForcedNegative ==
    /\ calc.fn = "shortestDelta"
    /\ calc.done
    /\ calc.to - calc.from = AngleStep
    /\ calc.delta = AngleStep - TwoPi

(* C13: for any wheel rotation, the blended angle of the post-land blend   *)
(* at weight 0 is the frozen landing angle and at weight 1 is the pocket's *)
(* local angle plus the wheel rotation at that instant.                    *)
C13_BlendEndpoints ==
    (calc.fn = "blend" /\ calc.done) =>
        /\ calc.atZero = calc.frozen
        /\ calc.atOne = getAngleForNumber(calc.target) + calc.rotation

(* A blend between two different angles has been evaluated at both ends *)
C13_BlendBetweenDifferentAngles ==
    /\ calc.fn = "blend"
    /\ calc.done
    /\ calc.rotation # 0
    /\ calc.atZero # calc.atOne

---------------------------------------------------------------------------
(* The hand-over from the landing to the post-land blend                   *)

(* C14: at the moment blending starts, the wheel-relative angle (pocket's  *)
(* local angle plus live wheel rotation) and the frozen landing angle are  *)
(* equal modulo a full turn, so the blend moves the ball without a jump    *)
(* relative to its pocket.                                                 *)
C14_BlendStartsOnThePocket ==
    \A tw \in liveTweens :
        (tw.kind = "blend" /\ tw.time = 0) =>
            Mod2Pi(getAngleForNumber(tw.target) + wheel.rotation)
                = Mod2Pi(tw.ballCurrentAngle)

---------------------------------------------------------------------------
(* Remote messages and the connection                                      *)

(* seconds is timeLeft / 1000 rounded up *)
IsCeilSeconds(seconds, timeLeft) ==
    seconds * 1000 >= timeLeft /\ (seconds - 1) * 1000 < timeLeft

FreshCountdown(n, timeLeft) ==
    /\ n.countdown.running
    /\ IsCeilSeconds(n.countdown.seconds, timeLeft)
    /\ n.countdown.left = SecondsToTicks(n.countdown.seconds)

(* C15: handling a remote RoundStart in any state leaves the session in    *)
(* CountdownRunning: no spin is in progress afterwards, any previous       *)
(* countdown is replaced and the new one lasts ceil(timeLeft / 1000) s.    *)
C15_RoundStartStartsCountdown ==
    isServerControlled =>
        \A timeLeft \in TimeLefts :
            LET n == handleRoundStart(St, timeLeft)
            IN  /\ ~n.isSpinning
                /\ n.liveTimelines = {}
                /\ FreshCountdown(n, timeLeft)

(* A 2 s countdown of the server is fresh and a spin has been cancelled *)
C15_CountdownAfterCancelledSpin ==
    /\ isServerControlled
    /\ cancelled # {}
    /\ ~isSpinning
    /\ countdown = [running |-> TRUE, seconds |-> 2, left |-> SecondsToTicks(2)]

NoEarlierAnimation(n) ==
    /\ n.liveTimelines \cap liveTimelines = {}
    /\ n.liveTweens \cap liveTweens = {}

(* C16: a remote Spin or RoundStart synchronously cancels any in-flight    *)
(* trajectory phase, post-land blend and permanent lock loop: none of the  *)
(* earlier animations is still active when the handler returns.            *)
C16_RemoteMessagesCancelAnimations ==
    isServerControlled =>
        /\ \A timeLeft \in TimeLefts : NoEarlierAnimation(handleRoundStart(St, timeLeft))
        /\ \A index \in ValidTargets : NoEarlierAnimation(handleServerSpin(St, index))

(* C17: after GameState{roundActive, timeLeft} a countdown of              *)
(* ceil(timeLeft / 1000) s is running if roundActive is true, replacing    *)
(* any previous one, and no countdown is running if roundActive is false.  *)
C17_GameStateSyncsCountdown ==
    isServerControlled =>
        \A roundActive \in BOOLEAN, timeLeft \in GameStateTimeLefts :
            LET n == handleGameState(St, roundActive, timeLeft)
            IN  IF roundActive
                THEN FreshCountdown(n, timeLeft)
                ELSE ~n.countdown.running

(* C17, amended: the countdown is running afterwards if roundActive is     *)
(* true and timeLeft is positive; if roundActive is false, or timeLeft is  *)
(* not positive, no countdown is running afterwards.                       *)
C17_GameStateSyncsPositiveTimeLeft ==
    isServerControlled =>
        \A roundActive \in BOOLEAN, timeLeft \in GameStateTimeLefts :
            LET n == handleGameState(St, roundActive, timeLeft)
            IN  IF roundActive /\ timeLeft > 0
                THEN FreshCountdown(n, timeLeft)
                ELSE ~n.countdown.running

(* A 3 s countdown, which only a GameState message starts, is fresh *)
C17_ThreeSecondCountdown ==
    /\ isServerControlled
    /\ countdown = [running |-> TRUE, seconds |-> 3, left |-> SecondsToTicks(3)]

(* The frame in which a session completes *)
SpinCompletes == Len(notifications') > Len(notifications)

(* The frame in which the delayed automatic countdown starts *)
AutoCountdownStarts ==
    /\ \E c \in delayedCalls : c.kind = "countdown" /\ c.left <= 1 /\ c \notin delayedCalls'
    /\ countdown'.running
    /\ countdown'.seconds = autoCountdownDuration

(* C18: when a spin completes isSpinning becomes false and, if the system  *)
(* is not server-controlled, the automatic countdown is scheduled; the     *)
(* automatic countdown never starts while the system is server-controlled, *)
(* also when the connection is established during the delay.               *)
C18_AutoCountdownOnlyWhenLocal ==
    [][/\ SpinCompletes =>
             /\ ~isSpinning'
             /\ ~isServerControlled =>
                    \E c \in delayedCalls' :
                        c.kind = "countdown" /\ c.left = Ticks(autoCountdownDelayMs)
       /\ AutoCountdownStarts => ~isServerControlled]_vars

(* C19: isServerControlled is false initially, true after every connected  *)
(* event and false after every disconnected event; the error event, the    *)
(* remote messages, spins, countdowns and frames leave it alone.           *)
C19_ServerControlFollowsConnection ==
    /\ ~InitState.isServerControlled
    /\ handleNetworkConnected(St).isServerControlled
    /\ ~handleNetworkDisconnected(St).isServerControlled
    /\ handleNetworkError(St).isServerControlled = isServerControlled
    /\ \A random \in Randoms : Frame(St, random).isServerControlled = isServerControlled
    /\ \A roundActive \in BOOLEAN, timeLeft \in GameStateTimeLefts :
          handleGameState(St, roundActive, timeLeft).isServerControlled = isServerControlled
    /\ \A timeLeft \in TimeLefts :
          handleRoundStart(St, timeLeft).isServerControlled = isServerControlled
    /\ \A index \in RemoteTargets :
          handleServerSpin(St, index).isServerControlled = isServerControlled
    /\ \A t \in ValidTargets :
          /\ InputController_onSpin(St, t).isServerControlled = isServerControlled
          /\ InputController_onRandomSpin(St, t).isServerControlled = isServerControlled
          /\ spin(St, t, t).isServerControlled = isServerControlled
          /\ spin(St, NoTarget, t).isServerControlled = isServerControlled
    /\ \A seconds \in KeySeconds :
          /\ InputController_onCountdownStart(St, seconds).isServerControlled
                 = isServerControlled
          /\ startCountdown(St, seconds).isServerControlled = isServerControlled
    /\ InputController_onCountdownStop(St).isServerControlled = isServerControlled
    /\ stopCountdown(St).isServerControlled = isServerControlled

(* The connection was lost after a remote message had cancelled a spin *)
C19_DisconnectedAfterServerControl ==
    /\ ~isServerControlled
    /\ connectionStatus = "DISCONNECTED"
    /\ cancelled # {}

(* C20: a network error changes only the connection-status display;        *)
(* isSpinning, isServerControlled, the countdown and the engine's          *)
(* animation are unchanged, and the spin in flight goes on frame by frame  *)
(* as it would have without the error.                                     *)
C20_NetworkErrorOnlyChangesStatus ==
    /\ handleNetworkError(St) = [St EXCEPT !.connectionStatus = "ERROR"]
    /\ \A random \in Randoms :
          Frame(handleNetworkError(St), random)
              = [Frame(St, random) EXCEPT !.connectionStatus = "ERROR"]

(* A local spin is under way, past its first frame, with the error shown *)
C20_SpinRunningAfterError ==
    /\ connectionStatus = "ERROR"
    /\ ~isServerControlled
    /\ isSpinning
    /\ \E tl \in liveTimelines : tl.time >= 1

---------------------------------------------------------------------------
(* C21: when a new spin session starts, the blend or lock tween in flight  *)
(* is cancelled before the first phase runs, and no blend or lock tween is *)
(* alive, and none can begin, while the engine is spinning.                *)
C21_SyncResetOnNewSession ==
    /\ \A t \in ValidTargets :
          LET n == BallPhysics_startSpin(St, t)
          IN  Len(n.started) > Len(started) =>
                  /\ n.liveTweens = {}
                  /\ n.ballSyncTween = NoRef
                  /\ \E tl \in n.liveTimelines : tl.sid = Len(n.started) /\ tl.time = 0
    /\ physicsIsSpinning =>
          /\ liveTweens = {}
          /\ ballSyncTween = NoRef
          /\ \A t \in ValidTargets, sid \in 1..Len(started) :
                /\ establishSmoothWheelSync(St, t, sid) = St
                /\ establishPermanentWheelSync(St, t, sid) = St

(* A session has just started on a ball that the lock tween moved last *)
C21_SpinStartedFromLocked ==
    /\ lastWrite.by = "lock"
    /\ physicsIsSpinning
    /\ liveTweens = {}
    /\ \E tl \in liveTimelines : tl.time = 0

---------------------------------------------------------------------------
(* A lock near the end of its tween: a scene that took one local spin for  *)
(* any pocket, was left alone until the ball was locked and the automatic  *)
(* countdown had run out, and then stayed so until the lock tween has      *)
(* LockHorizon frames left. It is left alone or takes a local spin.        *)

RECURSIVE Frames(_, _)
Frames(s, n) ==
    IF n = 0 THEN s
    ELSE LET next == Frame(s, 0)
         IN  IF next = s THEN s ELSE Frames(next, n - 1)

SettleTicks ==
    spinDuration + Ticks(autoCountdownDelayMs) + SecondsToTicks(autoCountdownDuration) + 1

LockedAfter(winningIndex, rotation) ==
    Frames(handleInputSpin([InitState EXCEPT !.wheel.rotation = rotation], winningIndex),
           SettleTicks)

AgedLock(s) ==
    [s EXCEPT !.liveTweens = {[tw EXCEPT !.time = LockTicks - LockHorizon] : tw \in @}]

LockInit ==
    /\ \E winningIndex \in 0..(pocketCount - 1), rotation \in WheelStarts :
          Start(AgedLock(LockedAfter(winningIndex, rotation)))
    /\ calc = NoCalc
    /\ dev = NoDev

LockNext ==
    \/ Tick
    \/ KeySpin

SpecLock == LockInit /\ [][LockNext]_vars

IsLocked(tweens) == \E tw \in tweens : tw.kind = "lock"

---------------------------------------------------------------------------
(* Scene teardown: the scene of Spec, which its host may destroy at any    *)
(* time. Afterwards only the animation scheduler, which is global, runs.   *)

DestroyScene == ~destroyed /\ Apply(destroyScene(St))

TeardownNext ==
    \/ ~destroyed /\ Next
    \/ DestroyScene
    \/ destroyed /\ Tick

SpecTeardown == Init /\ [][TeardownNext]_vars

KeepsWheel(n) == n.wheel = wheel

(* C23: the wheel's constant rotation is never stopped or modified by a    *)
(* spin, a cancellation, a countdown, a network event or an input event:   *)
(* every handler leaves the wheel as it is, every frame turns it by the    *)
(* same constant angle, and it rotates exactly until the scene is torn     *)
(* down. The ball engine reads the rotation and never writes it.           *)
C23_WheelRotationUntouched ==
    /\ wheel.rotating = ~destroyed
    /\ ~destroyScene(St).wheel.rotating
    /\ \A random \in Randoms :
          Frame(St, random).wheel =
              IF destroyed THEN wheel
              ELSE [wheel EXCEPT !.rotation = Mod2Pi(@ + WheelPerTick)]
    /\ KeepsWheel(handleNetworkConnected(St))
    /\ KeepsWheel(handleNetworkDisconnected(St))
    /\ KeepsWheel(handleNetworkError(St))
    /\ \A roundActive \in BOOLEAN, timeLeft \in GameStateTimeLefts :
          KeepsWheel(handleGameState(St, roundActive, timeLeft))
    /\ \A timeLeft \in TimeLefts : KeepsWheel(handleRoundStart(St, timeLeft))
    /\ \A index \in RemoteTargets :
          /\ KeepsWheel(handleServerSpin(St, index))
          /\ KeepsWheel(BallPhysics_startSpin(St, index))
          /\ KeepsWheel(spin(St, index, 0))
    /\ \A t \in ValidTargets :
          /\ KeepsWheel(InputController_onSpin(St, t))
          /\ KeepsWheel(InputController_onRandomSpin(St, t))
          /\ KeepsWheel(spin(St, NoTarget, t))
    /\ \A seconds \in KeySeconds :
          /\ KeepsWheel(InputController_onCountdownStart(St, seconds))
          /\ KeepsWheel(startCountdown(St, seconds))
    /\ KeepsWheel(InputController_onCountdownStop(St))
    /\ KeepsWheel(stopCountdown(St))
    /\ KeepsWheel(stopAllAnimations(St))
    /\ KeepsWheel(handleCountdownComplete(St))

(* The wheel has turned through a cancelled spin and a remote countdown,   *)
(* and the scene is then torn down                                         *)
C23_TornDownAfterCancelledSpin ==
    /\ destroyed
    /\ ~wheel.rotating
    /\ wheel.rotation # 0
    /\ cancelled # {}
    /\ countdown.running
    /\ isServerControlled

---------------------------------------------------------------------------
(* Phases of a session *)

PhaseStartMs == <<Phase1StartMs, Phase2StartMs, Phase3StartMs, Phase4StartMs>>
PhaseMs == <<Phase1Ms, Phase2Ms, Phase3Ms, Phase4Ms>>
PhaseStart == <<Phase1Start, Phase2Start, Phase3Start, Phase4Start>>
PhaseEnd == <<Phase1End, Phase2End, Phase3End, Phase4End>>
PhaseName == <<"phase1", "phase2", "phase3", "phase4">>

(* The phases whose tween is under way at frame t of the timeline *)
PhasesAt(t) == {i \in 1..4 : PhaseStart[i] <= t /\ t < PhaseEnd[i]}

(* C25: the four phases of a session are registered at 0 %, 20 %, 50 % and *)
(* 80 % of the spin duration with lengths 20 %, 30 %, 30 % and 20 %; each  *)
(* offset is the previous offset plus the previous length and the lengths  *)
(* sum to the spin duration; at every frame of a running session exactly   *)
(* one phase is under way, and it is the one that wrote the ball position. *)
C25_PhasesPartitionSpin ==
    /\ \A i \in 1..4 :
          /\ PhaseStartMs[i] * 100 = spinDurationMs * <<0, 20, 50, 80>>[i]
          /\ PhaseMs[i] * 100 = spinDurationMs * <<20, 30, 30, 20>>[i]
    /\ \A i \in 1..3 : PhaseStartMs[i + 1] = PhaseStartMs[i] + PhaseMs[i]
    /\ PhaseMs[1] + PhaseMs[2] + PhaseMs[3] + PhaseMs[4] = spinDurationMs
    /\ \A tl \in liveTimelines :
          /\ Cardinality(PhasesAt(tl.time)) = 1
          /\ tl.time >= 1 =>
                \A i \in PhasesAt(tl.time) :
                    lastWrite = [by |-> PhaseName[i], sid |-> tl.sid]

(* The frame at which phase 2 ends and phase 3 begins *)
C25_Phase3TakesOver ==
    \E tl \in liveTimelines :
        /\ tl.time = Phase3Start
        /\ tl.time = Phase2End
        /\ lastWrite.by = "phase3"

---------------------------------------------------------------------------
(* C26: when a running countdown completes under local control no         *)
(* countdown is running afterwards, and if no spin is in flight canSpin()  *)
(* is true and the next local spin request starts a spin.                  *)
C26_CountdownCompletionReturnsToIdle ==
    (countdown.running /\ countdown.left <= 1 /\ ~isServerControlled) =>
        LET n == GameUI_update(St)
        IN  /\ ~isCountdownRunning(n)
            /\ ~n.inputState.isCountdownRunning
            /\ ~n.isSpinning =>
                  /\ canSpin(n)
                  /\ \A t \in ValidTargets : NewSession(handleInputSpin(n, t), t)

---------------------------------------------------------------------------
(* C27: an alignment mismatch at spin completion is only logged: whatever  *)
(* winner the board reports, handling spin complete leaves the state it    *)
(* leaves when the winner is the target: isSpinning false, the automatic   *)
(* countdown scheduled exactly under local control, isServerControlled     *)
(* unchanged and no session started.                                       *)
C27_MismatchOnlyLogged ==
    \A t \in ValidTargets,
       actualWinner \in ValidTargets \cup {getCurrentWinningNumber(St), pocketCount - 1} :
        LET n == handleSpinComplete(St, t, actualWinner)
        IN  /\ n = handleSpinComplete(St, t, t)
            /\ ~n.isSpinning
            /\ n.isServerControlled = isServerControlled
            /\ n.started = started
            /\ n.liveTimelines = liveTimelines
            /\ n.delayedCalls \ delayedCalls =
                   IF isServerControlled THEN {}
                   ELSE {[kind |-> "countdown", left |-> Ticks(autoCountdownDelayMs),
                          target |-> t, sid |-> 0]} \ delayedCalls

(* A local spin has just completed with the board reporting another pocket *)
(* than the target                                                         *)
C27_CompletedWithMismatch ==
    /\ \E c \in delayedCalls :
          JustLanded(c) /\ getCurrentWinningNumber(St) # c.target
    /\ \E c \in delayedCalls : c.kind = "countdown"
    /\ ~isSpinning
    /\ ~physicsIsSpinning

---------------------------------------------------------------------------
(* Logger (src/src/utils/logger.ts), evaluated on its own: a bundle built  *)
(* for a mode, so that process.env.NODE_ENV is that mode (or is not set),  *)
(* runs on a platform that has a global process object (Node) or has none  *)
(* (a browser), and one message of some level is logged.                   *)

LogLevels == {"debug", "info", "warn", "error"}

NodeEnvs == {"production", "development", "test", ""}

(* const env = (typeof process !== 'undefined' && process.env               *)
(*              && process.env.NODE_ENV) || 'development'                   *)
env(hasProcess, nodeEnv) ==
    IF hasProcess /\ nodeEnv # "" THEN nodeEnv ELSE "development"

shouldLog(e, level) == IF e = "production" THEN level = "info" ELSE TRUE

NoOutput == [console |-> "none", tag |-> "", args |-> <<>>]

toUpperCase == [level \in LogLevels |->
                   CASE level = "debug" -> "DEBUG"
                     [] level = "info" -> "INFO"
                     [] level = "warn" -> "WARN"
                     [] level = "error" -> "ERROR"]

print(e, level, args) ==
    IF ~shouldLog(e, level) THEN NoOutput
    ELSE [console |-> level,
          tag |-> IF level = "error" THEN "DANGER" ELSE toUpperCase[level],
          args |-> args]

LogArgs == {[i \in 1..n |-> "message"] : n \in 0..MaxLogArgs}

LogInputs ==
    [fn : {"print"}, hasProcess : BOOLEAN, nodeEnv : NodeEnvs, level : LogLevels,
     args : LogArgs, done : {FALSE}, out : {NoOutput}]

LoggerInit ==
    /\ Start(InitState)
    /\ calc \in LogInputs
    /\ dev = NoDev

LoggerPrint ==
    /\ calc.fn = "print"
    /\ ~calc.done
    /\ calc' = [calc EXCEPT
                   !.done = TRUE,
                   !.out = print(env(calc.hasProcess, calc.nodeEnv), calc.level, calc.args)]
    /\ UNCHANGED <<programVars, dev>>

LoggerNext == LoggerPrint

SpecLogger == LoggerInit /\ [][LoggerNext]_vars

Printed(out) == out # NoOutput

---------------------------------------------------------------------------
(* Order of the engine's states *)

SyncTweenIds(tweens) == {[kind |-> tw.kind, sid |-> tw.sid] : tw \in tweens}

(* A sync tween belongs to a session that has landed and completed, and    *)
(* the engine is not spinning                                              *)
SyncOnlyAfterCompletion ==
    \A tw \in liveTweens :
        /\ ~physicsIsSpinning
        /\ ~IsLive(tw.sid)
        /\ tw.sid \notin cancelled
        /\ NotificationsOf(tw.sid) = LandedThenComplete(tw.sid)

(* A blend begins from the delayed call of a landing that is due, a lock   *)
(* begins from the last frame of the blend of its session                  *)
SyncStartsInOrder ==
    \A id \in SyncTweenIds(liveTweens') \ SyncTweenIds(liveTweens) :
        /\ id.kind = "blend" =>
              /\ ~IsLocked(liveTweens')
              /\ \E c \in delayedCalls :
                    c.kind = "sync" /\ c.sid = id.sid /\ c.left <= 1
        /\ id.kind = "lock" =>
              \E b \in liveTweens :
                  b.kind = "blend" /\ b.sid = id.sid /\ b.time + 1 = BlendTicks

(* C29: the engine's states are entered only in the order Idle, Spinning,  *)
(* Landed, Blending, Locked: a blend starts only after the ball-landed and *)
(* spin-complete notifications of its session, a lock starts only when the *)
(* blend of its session completes, and neither is active while the engine  *)
(* is spinning.                                                            *)
C29_StatesEnteredInOrder ==
    /\ []SyncOnlyAfterCompletion
    /\ [][SyncStartsInOrder]_vars

(* The frame in which the blend of a remote spin completes and the lock    *)
(* takes over                                                              *)
C29_LockTakesOverFromBlend ==
    /\ IsLocked(liveTweens)
    /\ lastWrite.by = "blend"
    /\ isServerControlled

---------------------------------------------------------------------------
(* The wheel rotation that the landing computation predicted for the end   *)
(* of phase 4, recovered from the landing angle it stored                  *)
PredictedWheelRotation(winningIndex) ==
    (ballFinalAngle + topPosition) - getAngleForNumber(winningIndex)

---------------------------------------------------------------------------
(* Continuity of the ball's angle *)

PhaseTicks(i) == PhaseEnd[i] - PhaseStart[i]

(* C31: the ball's angle is continuous across the phase boundaries: the    *)
(* angle phase 2 starts from is the angle phase 1 reaches at progress 1,   *)
(* likewise phase 3 after phase 2, and the initial angle phase 4 assumes   *)
(* is the sum of the displacements of phases 1 to 3, 0.90 of the ball      *)
(* rotations counter-clockwise; the engine's angle at each boundary frame  *)
(* is that angle.                                                          *)
C31_AngleContinuousAcrossPhases ==
    /\ initialBallAngle = 0 - (Phase1Rotation + Phase2Rotation + Phase3Rotation)
    /\ initialBallAngle * 100 = 0 - (ballSpins * TwoPi * 90)
    /\ \A tl \in liveTimelines :
          /\ Phase1Update(St, tl, PhaseTicks(1), PhaseTicks(1)).ball.angle
                 = Phase2Update(St, tl, 0, PhaseTicks(2)).ball.angle
          /\ \A random \in Randoms :
                /\ Phase2Update(St, tl, PhaseTicks(2), PhaseTicks(2)).ball.angle
                       = Phase3Update(St, tl, 0, PhaseTicks(3), random).ball.angle
                /\ Phase3Update(St, tl, PhaseTicks(3), PhaseTicks(3), random).ball.angle
                       = initialBallAngle
          /\ Phase4Update([St EXCEPT !.currentBallAngle = initialBallAngle],
                          tl, 0, PhaseTicks(4)).ball.angle = initialBallAngle
          /\ tl.time = Phase2Start => currentBallAngle = 0 - Phase1Rotation
          /\ tl.time = Phase3Start =>
                currentBallAngle = 0 - (Phase1Rotation + Phase2Rotation)
          /\ tl.time = Phase4Start =>
                currentBallAngle = initialBallAngle /\ ball.angle = initialBallAngle

(* The frame in which phase 4 takes over from phase 3 *)
C31_Phase4TakesOver ==
    \E tl \in liveTimelines :
        /\ tl.time = Phase4Start
        /\ lastWrite.by = "phase4"
        /\ currentBallAngle = initialBallAngle

---------------------------------------------------------------------------
(* Phase 4: the step of the drawn angle *)

Abs(x) == IF x < 0 THEN 0 - x ELSE x

(* Two consecutive updates of phase 4 of one session *)
ConsecutivePhase4Updates ==
    /\ lastWrite.by = "phase4"
    /\ lastWrite'.by = "phase4"
    /\ lastWrite'.sid = lastWrite.sid
    /\ \E tl \in liveTimelines : tl.sid = lastWrite.sid /\ tl.time >= Phase4Start

(* C32: during phase 4 the angle at which the ball is drawn advances by at *)
(* most maxDelta (0.04 rad) between two consecutive updates, however large *)
(* the computed delta or the progress increment is.                        *)
C32_DrawnAngleStepClamped ==
    [][ConsecutivePhase4Updates => Abs(ball'.angle - ball.angle) <= maxDelta]_vars

---------------------------------------------------------------------------
(* Phase 4 at progress 1 *)

(* Amplitudes of the bounce and of the perturbation of phase 4, k frames   *)
(* into the phase of n frames, in thousandths of a pixel                   *)
Phase4BounceIntensity(k, n) == (12 * 1000 * (n - k) * (n - k)) \div (n * n)

Phase4ErraticIntensity(k, n) ==
    (3 * 1000 * (n - k) * (n - k) * (n - k)) \div (n * n * n)

(* The trajectory is one frame before the completion of phase 4 *)
BeforeLastFrame(tl) == tl.time + 1 = Phase4End

(* C33: at progress 1 of phase 4 the interpolated position coincides with  *)
(* the snapped landing position: the initial angle plus the delta is       *)
(* congruent to the target angle modulo a full turn, the radius is the end *)
(* radius, and the bounce and perturbation amplitudes are zero.            *)
C33_LastUpdateIsLandingPosition ==
    \A tl \in liveTimelines :
        LET n == PhaseTicks(4)
            last == Phase4Update(WheelUpdate(St), tl, n, n)
            landed == Frame(St, 0)
        IN  /\ Mod2Pi(initialBallAngle + tl.angleDiff) = Mod2Pi(tl.targetBallAngle)
            /\ Phase4BounceIntensity(n, n) = 0
            /\ Phase4ErraticIntensity(n, n) = 0
            /\ BeforeLastFrame(tl) =>
                  /\ Mod2Pi(last.ball.angle) = Mod2Pi(landed.ball.angle)
                  /\ last.ball.radius = landed.ball.radius
                  /\ last.ball.radius = ballEndRadius
                  /\ landed.ball.angle = tl.targetBallAngle

(* A landing whose delta is not zero, one frame before the snap *)
C33_AboutToSnap ==
    \E tl \in liveTimelines :
        /\ BeforeLastFrame(tl)
        /\ tl.angleDiff # 0
        /\ lastWrite.by = "phase4"
        /\ Frame(St, 0).lastWrite.by = "landing"

---------------------------------------------------------------------------
(* What the path of the ball depends on *)

(* The trajectory that this session would be running, had it been started  *)
(* for this pocket with the wheel at this rotation                         *)
TwinTimeline(tl, winningIndex, rotation) ==
    LET e == executePhase4_CalculatedLanding(
                 [St EXCEPT !.liveTimelines = {}, !.wheel.rotation = rotation],
                 winningIndex, tl.sid)
        twin == CHOOSE x \in e.liveTimelines : TRUE
    IN  [twin EXCEPT !.time = tl.time]

SamePosition(a, b) ==
    /\ a.ball = b.ball
    /\ a.currentBallAngle = b.currentBallAngle
    /\ a.lastWrite = b.lastWrite

(* The state but for the radius at which the ball is drawn *)
ButRadius(s) == [s EXCEPT !.ball.radius = 0]

(* C34: only phase 4 depends on the target pocket: two sessions that       *)
(* differ only in their target and in the wheel rotation put the ball at   *)
(* the same position in every frame of phases 1 to 3 (every session, for   *)
(* any pocket and rotation, is compared with the sessions for the first    *)
(* and the last pocket at every rotation); and the landing                 *)
(* angle does not depend on the perturbation drawn in phase 3: a draw      *)
(* changes nothing but the radius drawn in that frame, no frame reads that *)
(* radius, and the landing angle of a running trajectory is the one        *)
(* computed from its target and the wheel rotation at spin start.          *)
C34_OnlyPhase4DependsOnTarget ==
    \A tl \in liveTimelines :
        /\ tl.targetBallAngle =
               TargetBallAngle(tl.target, Mod2Pi(wheel.rotation - tl.time * WheelPerTick))
        /\ \A random \in Randoms :
              /\ ButRadius(TimelineRender(St, tl, random))
                     = ButRadius(TimelineRender(St, tl, 0))
              /\ ButRadius(Frame([St EXCEPT !.ball.radius = ballEndRadius], random))
                     = ButRadius(Frame(St, random))
              /\ tl.time + 1 < Phase4Start =>
                    \A winningIndex \in {0, pocketCount - 1}, rotation \in WheelStarts :
                        LET twin == TwinTimeline(tl, winningIndex, rotation)
                        IN  SamePosition(
                                TimelineRender(St, tl, random),
                                TimelineRender([St EXCEPT !.wheel.rotation = rotation],
                                               twin, random))

(* Phase 3 has drawn the ball with the largest perturbation, on the way to *)
(* a pocket other than pocket 0                                            *)
C34_PerturbedInPhase3 ==
    \E tl \in liveTimelines :
        /\ tl.time = Phase3Start + 1
        /\ tl.target # 0
        /\ lastWrite.by = "phase3"
        /\ ball.radius = Phase3Update(St, tl, 1, PhaseTicks(3), 0).ball.radius
                             + Phase3ErraticIntensity(1, PhaseTicks(3))

---------------------------------------------------------------------------
(* The two isSpinning flags *)

(* C35: in every reachable state the orchestrator's isSpinning equals the  *)
(* trajectory engine's isSpinning, and both are true exactly when a        *)
(* trajectory timeline is active; in particular after a remote RoundStart  *)
(* or GameState message has cancelled a spin and after the engine has      *)
(* rejected a spin request.                                                *)
C35_SpinningFlagsAgree ==
    /\ isSpinning = physicsIsSpinning
    /\ isSpinning <=> (liveTimelines # {})

---------------------------------------------------------------------------
(* Progress of a spin *)

(* The scheduler keeps ticking: a frame is always possible and is taken *)
SpecFair == Spec /\ WF_vars(Tick)

(* C36: whenever the orchestrator's isSpinning becomes true it eventually  *)
(* becomes false again, by landing or by a remote cancellation, provided   *)
(* the animation ticks keep firing.                                        *)
C36_SpinningEventuallyEnds == isSpinning ~> ~isSpinning

---------------------------------------------------------------------------
(* The game state held by the input adapter *)

CurrentGameState(s) ==
    [isSpinning |-> s.isSpinning,
     isCountdownRunning |-> isCountdownRunning(s),
     isServerControlled |-> s.isServerControlled]

(* C37: after every event handler of the orchestrator has returned, the    *)
(* game state last pushed to the input adapter (isSpinning,                *)
(* isCountdownRunning, isServerControlled) equals the orchestrator's       *)
(* current values of those three.                                          *)
C37_InputStateIsCurrent == inputState = CurrentGameState(St)

---------------------------------------------------------------------------
(* The dev server (src/scripts/dev.mjs): main, the file watcher and the    *)
(* rebuild loop.  The script runs on one event loop: a step is the run of  *)
(* one callback up to its next await.                                      *)

MaxChanges == 6

(* Exit codes of the pipeline child process: success and failure *)
ExitCodes == {0, 1}

(* main() has called runPipelineDev() and awaits the first build.          *)
(*   pc          main: "pipeline", "inject", "watch" (the watcher is       *)
(*               installed) or "exit" (process.exit(1))                    *)
(*   pipelines   pipeline child processes that have not exited             *)
(*   injections  calls of ensureLiveReloadInjected that have not settled   *)
(*   changes, runs, succeeded, failed, reloads  history: events observed   *)
(*               by the watcher, runs started by rebuild, their outcomes,  *)
(*               reloads broadcast                                         *)
(*   unserved    history: a change was observed and no run started since   *)
(*   during      history: changes observed during the rebuild in progress  *)
DevInitState ==
    [pc |-> "pipeline", building |-> FALSE, pending |-> FALSE,
     pipelines |-> 1, injections |-> 0,
     changes |-> 0, runs |-> 0, succeeded |-> 0, failed |-> 0, reloads |-> 0,
     unserved |-> FALSE, during |-> 0]

(* spawn(process.execPath, [pipeline.mjs, ...]) *)
runPipelineDev(d) == [d EXCEPT !.pipelines = @ + 1]

(* Variant: rebuild starts a run whether or not one is in progress *)
rebuild_unguarded(d) ==
    runPipelineDev([d EXCEPT !.building = TRUE, !.runs = @ + 1,
                             !.unserved = FALSE, !.during = 0])

(* rebuild(), up to its first await *)
rebuild(d) ==
    IF d.building
    THEN [d EXCEPT !.pending = TRUE]
    ELSE runPipelineDev([d EXCEPT !.building = TRUE, !.runs = @ + 1,
                                  !.unserved = FALSE, !.during = 0])

(* Variant: the finally block forgets the pending change *)
rebuildFinally_dropsPending(d) == [d EXCEPT !.building = FALSE, !.pending = FALSE]

(* The finally block of rebuild() *)
rebuildFinally(d) ==
    LET a == [d EXCEPT !.building = FALSE]
    IN  IF a.pending THEN rebuild([a EXCEPT !.pending = FALSE]) ELSE a

broadcastReload(d) == [d EXCEPT !.reloads = @ + 1]

(* The child exits and the promise of runPipelineDev settles: main goes on *)
(* or exits; rebuild goes on to ensureLiveReloadInjected or to its catch   *)
(* and finally blocks.                                                     *)
pipelineExited(d, code) ==
    LET a == [d EXCEPT !.pipelines = @ - 1]
    IN  IF d.pc = "pipeline"
        THEN IF code = 0
             THEN [a EXCEPT !.pc = "inject", !.injections = @ + 1]
             ELSE [a EXCEPT !.pc = "exit"]
        ELSE IF code = 0
             THEN [a EXCEPT !.succeeded = @ + 1, !.injections = @ + 1]
             ELSE rebuildFinally([a EXCEPT !.failed = @ + 1])

(* ensureLiveReloadInjected settles: main installs the servers and the     *)
(* watcher; rebuild broadcasts the reload and runs its finally block.      *)
ensureLiveReloadInjected(d) ==
    LET a == [d EXCEPT !.injections = @ - 1]
    IN  IF d.pc = "inject"
        THEN [a EXCEPT !.pc = "watch"]
        ELSE rebuildFinally(broadcastReload(a))

(* watcher.on('all', rebuild) *)
onAll(d) ==
    rebuild([d EXCEPT !.changes = @ + 1,
                      !.unserved = TRUE,
                      !.during = IF d.building THEN @ + 1 ELSE @])

DevChange ==
    /\ dev.pc = "watch"
    /\ dev.changes < MaxChanges
    /\ dev' = onAll(dev)
    /\ UNCHANGED <<programVars, calc>>

DevPipelineExit ==
    /\ dev.pc # "none"
    /\ dev.pipelines > 0
    /\ \E code \in ExitCodes : dev' = pipelineExited(dev, code)
    /\ UNCHANGED <<programVars, calc>>

DevInjected ==
    /\ dev.pc # "none"
    /\ dev.injections > 0
    /\ dev' = ensureLiveReloadInjected(dev)
    /\ UNCHANGED <<programVars, calc>>

DevInit == Start(InitState) /\ calc = NoCalc /\ dev = DevInitState

DevNext == DevChange \/ DevPipelineExit \/ DevInjected

SpecDev == DevInit /\ [][DevNext]_vars

(* C38: in the dev server at most one pipeline run is in progress at any   *)
(* time: a change event that arrives while a rebuild is running never      *)
(* starts a second concurrent run; a run is in progress exactly while      *)
(* building is set.                                                        *)
C38_OneRunAtATime ==
    /\ dev.pipelines + dev.injections <= 1
    /\ dev.pc = "watch" => (dev.building <=> dev.pipelines + dev.injections = 1)
    /\ dev.pending => dev.building

(* Two changes have arrived while a rebuild's pipeline is running *)
C38_ChangesDuringRun ==
    /\ dev.pc = "watch"
    /\ dev.pipelines = 1
    /\ dev.during = 2
    /\ dev.pending

(* The pipeline child exits and the file operations of                     *)
(* ensureLiveReloadInjected settle                                         *)
SpecDevFair == SpecDev /\ WF_vars(DevPipelineExit) /\ WF_vars(DevInjected)

(* A step in which a rebuild is over: its reload is broadcast or it failed *)
RebuildEnds == dev'.reloads # dev.reloads \/ dev'.failed # dev.failed

(* Any number of changes during a rebuild start exactly one follow-up run, *)
(* at the end of that rebuild, and no change starts none                   *)
Coalesced ==
    RebuildEnds =>
        /\ dev'.runs = dev.runs + (IF dev.during > 0 THEN 1 ELSE 0)
        /\ dev'.building = (dev.during > 0)
        /\ ~dev'.pending
        /\ ~dev'.unserved

(* A reload is broadcast in the step that ends a successful rebuild only *)
ReloadOnSuccessOnly ==
    /\ dev'.reloads # dev.reloads =>
          dev'.reloads = dev.reloads + 1 /\ dev'.failed = dev.failed
    /\ dev'.failed # dev.failed => dev'.reloads = dev.reloads

====
